---- MODULE Spec2Model ----
(***************************************************************************)
(* Model of ory-am/ladon: the Warden decision engine (Ladon.IsAllowed,     *)
(* doPoliciesAllow, Match, passesConditions) and the two persistent policy *)
(* managers (RedisManager, SQLManager).                                    *)
(*                                                                         *)
(* Go strings are sequences of one-character strings, so that pattern      *)
(* templates can be scanned for their delimiters the way the compiler      *)
(* scans them.  A nil slice and an empty slice are both <<>>: the code     *)
(* only ever takes len() of them and ranges over them.                     *)
(***************************************************************************)
EXTENDS Integers, Sequences, FiniteSets, Bags, TLC

(***************************************************************************)
(* Bounds of the model.                                                    *)
(***************************************************************************)
\* longest candidate list the mocked Manager hands to the engine
MaxCandidates == 2
\* policy identifiers are 1..MaxID (they stand for the id strings)
MaxID == 2
\* the DB statements of one SQL Create that may fail are numbered 1..MaxFail
MaxFail == 5
\* commits of other callers that fall into one FindPoliciesForSubject call
MaxWrites == 3

(***************************************************************************)
(* Strings used by requests and templates.                                 *)
(***************************************************************************)
Peter  == <<"p">>
Max    == <<"m">>
View   == <<"v">>
Delete == <<"d">>
NoResource == <<>>
Art1   == <<"a", "1">>
Art2   == <<"a", "2", "2">>

\* templates: literal text mixed with <regex> fragments
TplAny     == <<"<", ".", "*", ">">>
TplArt     == <<"a", "<", ".", ">">>
TplPeter   == Peter
TplMax     == Max
TplView    == View
TplOpen    == <<"<", ".">>
TplBadRe   == <<"v", "<", "*", ">">>

StartDelimiter == "<"
EndDelimiter   == ">"

(***************************************************************************)
(* compiler.CompileRegex: delimiter scan, then literal runs quoted and     *)
(* <...> fragments inserted raw, the whole anchored at both ends.  The     *)
(* fragment language modelled is: a character, "." (any character), each   *)
(* optionally followed by "*".  A compiled expression is a sequence of     *)
(* atoms [ch, any, star].                                                  *)
(***************************************************************************)
RECURSIVE delimiterLevels(_, _, _)
\* the nesting level after each character, or -1 once a closing delimiter
\* has no opening one
delimiterLevels(tpl, i, level) ==
  IF i > Len(tpl) THEN <<>>
  ELSE LET l == IF level < 0 THEN -1
                 ELSE IF tpl[i] = StartDelimiter THEN level + 1
                 ELSE IF tpl[i] = EndDelimiter THEN level - 1
                 ELSE level
       IN <<l>> \o delimiterLevels(tpl, i + 1, l)

Balanced(tpl) ==
  LET ls == delimiterLevels(tpl, 1, 0)
  IN  /\ \A i \in 1..Len(ls) : ls[i] >= 0
      /\ (Len(ls) > 0 => ls[Len(ls)] = 0)

Literal(c) == [ch |-> c, any |-> FALSE, star |-> FALSE, bad |-> FALSE]

RECURSIVE ParseFragment(_, _)
\* the atoms of a raw fragment; a "*" with nothing to repeat is a bad atom
ParseFragment(frag, i) ==
  IF i > Len(frag) THEN <<>>
  ELSE IF frag[i] = "*"
    THEN <<[ch |-> "*", any |-> FALSE, star |-> FALSE, bad |-> TRUE]>>
  ELSE LET starred == i < Len(frag) /\ frag[i + 1] = "*"
           atom == [ch |-> frag[i], any |-> frag[i] = ".", star |-> starred,
                    bad |-> FALSE]
       IN <<atom>> \o ParseFragment(frag, IF starred THEN i + 2 ELSE i + 1)

RECURSIVE Assemble(_, _, _, _)
\* walk the template: level-0 characters are quoted, a top-level fragment is
\* parsed when its closing delimiter is met
Assemble(tpl, ls, i, open) ==
  IF i > Len(tpl) THEN <<>>
  ELSE LET before == IF i = 1 THEN 0 ELSE ls[i - 1]
       IN IF before = 0 /\ ls[i] = 1
            THEN Assemble(tpl, ls, i + 1, i)
          ELSE IF before = 1 /\ ls[i] = 0
            THEN ParseFragment(SubSeq(tpl, open + 1, i - 1), 1)
                   \o Assemble(tpl, ls, i + 1, 0)
          ELSE IF before = 0
            THEN <<Literal(tpl[i])>> \o Assemble(tpl, ls, i + 1, 0)
          ELSE Assemble(tpl, ls, i + 1, open)

CompileRegex(tpl) ==
  IF ~Balanced(tpl) THEN [err |-> TRUE, reg |-> <<>>]
  ELSE LET atoms == Assemble(tpl, delimiterLevels(tpl, 1, 0), 1, 0)
       IN IF \E k \in 1..Len(atoms) : atoms[k].bad
            THEN [err |-> TRUE, reg |-> <<>>]
            ELSE [err |-> FALSE, reg |-> atoms]

RECURSIVE MatchFrom(_, _, _, _)
MatchFrom(reg, s, i, j) ==
  IF i > Len(reg) THEN j > Len(s)
  ELSE LET a == reg[i]
           fits == j <= Len(s) /\ (a.any \/ a.ch = s[j])
       IN IF a.star
            THEN MatchFrom(reg, s, i + 1, j) \/ (fits /\ MatchFrom(reg, s, i, j + 1))
            ELSE fits /\ MatchFrom(reg, s, i + 1, j + 1)

\* Regexp.MatchString of an expression anchored at both ends
MatchString(reg, s) == MatchFrom(reg, s, 1, 1)

(***************************************************************************)
(* Policies, requests, conditions.                                         *)
(***************************************************************************)
\* the effect of a policy is one of these two (the CHECK of the SQL schema)
AllowAccessEffect == "allow"
DenyAccessEffect  == "deny"

DefaultPolicy(id, effect, subjects, actions, resources, conditions) ==
  [ID |-> id, Description |-> "d", Subjects |-> subjects, Effect |-> effect,
   Resources |-> resources, Actions |-> actions, Conditions |-> conditions]

Request(subject, action, resource, owner) ==
  [Resource |-> resource, Action |-> action, Subject |-> subject,
   Context |-> [Owner |-> owner]]

Requests ==
  { Request(s, a, res, o) : s \in {Peter, Max}, a \in {View, Delete},
                            res \in {NoResource, Art1, Art2}, o \in {Peter} }

\* the conditions of this version take the request alone
Fulfills(condition, r) ==
  IF condition = "SubjectIsOwner" THEN r.Context.Owner = r.Subject
  ELSE IF condition = "SubjectIsNotOwner" THEN r.Context.Owner # r.Subject
  ELSE FALSE

\* candidate policies the mocked Manager may return
WellFormedPool ==
  { DefaultPolicy(1, e, sar[1], sar[2], sar[3], <<>>) :
      e \in {AllowAccessEffect, DenyAccessEffect},
      sar \in { <<<<>>, <<TplAny>>, <<>>>>,
                <<<<TplPeter>>, <<TplView>>, <<>>>>,
                <<<<TplPeter>>, <<TplAny>>, <<TplArt>>>>,
                <<<<>>, <<TplView>>, <<TplArt>>>> } }

ConditionPool ==
  { DefaultPolicy(1, e, <<>>, <<TplAny>>, <<>>, <<"SubjectIsOwner">>) :
      e \in {AllowAccessEffect, DenyAccessEffect} }

MalformedPool ==
  { DefaultPolicy(1, AllowAccessEffect, <<>>, <<TplOpen>>, <<>>, <<>>),
    DefaultPolicy(1, DenyAccessEffect, <<TplPeter>>, <<TplView, TplOpen>>, <<>>, <<>>),
    DefaultPolicy(1, DenyAccessEffect, <<TplBadRe>>, <<TplView>>, <<>>, <<>>),
    DefaultPolicy(1, AllowAccessEffect, <<>>, <<TplAny>>, <<TplOpen, TplArt>>, <<>>),
    DefaultPolicy(1, AllowAccessEffect, <<>>, <<TplAny>>, <<TplArt, TplOpen>>, <<>>) }

MockPool == WellFormedPool \cup ConditionPool \cup MalformedPool

(***************************************************************************)
(* The decision engine.                                                    *)
(***************************************************************************)
RECURSIVE MatchLoop(_, _, _)
MatchLoop(haystack, needle, i) ==
  IF i > Len(haystack) THEN [ok |-> FALSE, err |-> FALSE]
  ELSE LET c == CompileRegex(haystack[i])
       IN IF c.err THEN [ok |-> FALSE, err |-> TRUE]
          ELSE IF MatchString(c.reg, needle) THEN [ok |-> TRUE, err |-> FALSE]
          ELSE MatchLoop(haystack, needle, i + 1)

RECURSIVE MatchLoopSkipping(_, _, _)
MatchLoopSkipping(haystack, needle, i) ==
  IF i > Len(haystack) THEN [ok |-> FALSE, err |-> FALSE]
  ELSE LET c == CompileRegex(haystack[i])
       IN IF ~c.err /\ MatchString(c.reg, needle) THEN [ok |-> TRUE, err |-> FALSE]
          ELSE MatchLoopSkipping(haystack, needle, i + 1)

\* mutant: a pattern that does not compile is passed over
MatchSkipsMalformed(p, haystack, needle) == MatchLoopSkipping(haystack, needle, 1)

\* Match stops at the first pattern that matches or does not compile
Match(p, haystack, needle) == MatchLoop(haystack, needle, 1)

passesConditions(p, r) ==
  \A i \in 1..Len(p.Conditions) : Fulfills(p.Conditions[i], r)

\* mutant: the effect is not looked at
AllowAccessAlways(p) == TRUE

AllowAccess(p) == p.Effect = AllowAccessEffect

\* mutant: the resource patterns are matched even for an empty resource
ResourceCheckAlwaysMatches(p, r) ==
  LET rm == MatchLoop(p.Resources, r.Resource, 1)
  IN IF rm.err THEN "error" ELSE IF ~rm.ok THEN "skip" ELSE "pass"

\* the resource step of the loop body: "pass", "skip" or "error"
ResourceCheck(p, r) ==
  IF r.Resource = <<>> /\ Len(p.Resources) = 0 THEN "pass"
  ELSE LET rm == Match(p, p.Resources, r.Resource)
       IN IF rm.err THEN "error" ELSE IF ~rm.ok THEN "skip" ELSE "pass"

\* one iteration of the loop over the policies: where it leaves the body
EvalPolicy(p, r) ==
  LET pm == Match(p, p.Actions, r.Action)
      sm == Match(p, p.Subjects, r.Subject)
      rc == ResourceCheck(p, r)
  IN IF pm.err THEN "action_error"
     ELSE IF ~pm.ok THEN "action_skip"
     ELSE IF sm.err THEN "subject_error"
     ELSE IF ~sm.ok /\ Len(p.Subjects) > 0 THEN "subject_skip"
     ELSE IF rc = "error" THEN "resource_error"
     ELSE IF rc = "skip" THEN "resource_skip"
     ELSE IF ~passesConditions(p, r) THEN "condition_skip"
     ELSE IF ~AllowAccess(p) THEN "deny"
     ELSE "allow"

ErrorOutcomes == {"action_error", "subject_error", "resource_error"}

\* mutants: the flag is not looked at
VerdictForbidden(allowed) == "Forbidden"
VerdictAllowed(allowed) == "nil"

\* the verdict after the loop has run through every policy
Verdict(allowed) == IF ~allowed THEN "Forbidden" ELSE "nil"

RECURSIVE PolicyLoop(_, _, _, _, _)
PolicyLoop(r, policies, i, allowed, trace) ==
  IF i > Len(policies) THEN [err |-> Verdict(allowed), trace |-> trace]
  ELSE LET o == EvalPolicy(policies[i], r)
           t == Append(trace, o)
       IN IF o \in ErrorOutcomes THEN [err |-> "CompileError", trace |-> t]
          ELSE IF o = "deny" THEN [err |-> "Forbidden", trace |-> t]
          ELSE PolicyLoop(r, policies, i + 1, allowed \/ o = "allow", t)

\* err is the returned error ("nil": allowed); trace records, for every policy
\* the loop entered, where the iteration left the loop body
doPoliciesAllow(r, policies) == PolicyLoop(r, policies, 1, FALSE, <<>>)

(***************************************************************************)
(* State.                                                                  *)
(***************************************************************************)
VARIABLES
  Manager,   \* which Manager the Ladon was built with: "mock", "redis", "sql"
  mock,      \* what the MockManager was told to return from its find call
  redis,     \* the hash at redisPoliciesKey(): a set of <<field, value>>
  sqldb,     \* the four tables of the SQL schema
  driver,    \* the SQL driver name
  call,      \* the last call made and its arguments
  ret,       \* what that call returned
  finder,    \* a FindPoliciesForSubject of the SQLManager that runs while
             \* other callers write: where it is and what it has read
  during     \* the tables as they have been since that call began

vars == <<Manager, mock, redis, sqldb, driver, call, ret, finder, during>>

IDs == 1..MaxID
Subjects == {Peter, Max}

NoPolicies == [err |-> "nil", policies |-> <<>>]
NoReturn == [err |-> "nil", found |-> NoPolicies, trace |-> <<>>]
Failed(e) == [err |-> e, policies |-> <<>>]

\* var p policy.DefaultPolicy: the zero value
ZeroPolicy ==
  [DefaultPolicy(0, "", <<>>, <<>>, <<>>, <<>>) EXCEPT !.Description = ""]

\* no FindPoliciesForSubject call is in flight
Idle ==
  [pc |-> "idle", subject |-> <<>>, ids |-> <<>>, i |-> 0, p |-> ZeroPolicy,
   policies |-> <<>>, err |-> "nil", writes |-> 0]

\* every enumeration of a finite set as a sequence
Enumerations(S) ==
  { q \in [1..Cardinality(S) -> S] : \A x \in S : \E i \in DOMAIN q : q[i] = x }

\* every order in which the rows of a bag can be returned
BagEnumerations(B) ==
  { q \in [1..BagCardinality(B) -> BagToSet(B)] :
      \A x \in BagToSet(B) :
        Cardinality({i \in DOMAIN q : q[i] = x}) = CopiesIn(x, B) }

\* policies that callers create in a store
StorePolicies ==
  { DefaultPolicy(id, AllowAccessEffect, <<TplPeter, TplMax>>, <<TplAny>>, <<>>,
                  <<"SubjectIsOwner">>) : id \in IDs }
  \cup
  { DefaultPolicy(id, DenyAccessEffect, <<>>, <<TplView>>, <<TplArt>>, <<>>) :
      id \in IDs }
  \cup
  { DefaultPolicy(id, AllowAccessEffect, <<TplPeter, TplOpen>>, <<TplAny>>, <<>>, <<>>) :
      id \in IDs }

(***************************************************************************)
(* MockManager.                                                            *)
(***************************************************************************)
CandidateLists == UNION { [1..n -> MockPool] : n \in 0..MaxCandidates }

\* the mocked Manager returns whatever the test scripted: a list or an error
MockReturns ==
  { [err |-> "nil", policies |-> l] : l \in CandidateLists }
    \cup { Failed("StoreError") }

MockFindPoliciesForSubject(subject) == {mock}

(***************************************************************************)
(* RedisManager.                                                           *)
(***************************************************************************)
\* json.Marshal of a DefaultPolicy: the fields under their json tags, a
\* condition as a record tagged with its type
MarshalConditions(conditions) ==
  [i \in 1..Len(conditions) |-> [type |-> conditions[i]]]

UnmarshalConditions(js) == [i \in 1..Len(js) |-> js[i].type]

Marshal(policy) ==
  [id |-> policy.ID, description |-> policy.Description,
   subjects |-> policy.Subjects, effect |-> policy.Effect,
   resources |-> policy.Resources, actions |-> policy.Actions,
   conditions |-> MarshalConditions(policy.Conditions)]

redisUnmarshalPolicy(payload) ==
  [ID |-> payload.id, Description |-> payload.description,
   Subjects |-> payload.subjects, Effect |-> payload.effect,
   Resources |-> payload.resources, Actions |-> payload.actions,
   Conditions |-> UnmarshalConditions(payload.conditions)]

HExists(hash, field) == \E e \in hash : e[1] = field
HGet(hash, field) == (CHOOSE e \in hash : e[1] = field)[2]

\* mutant: the field is overwritten (HSET)
HSetOverwrites(hash, field, value) ==
  [wasSet |-> TRUE,
   hash |-> {e \in hash : e[1] # field} \cup {<<field, value>>}]

\* HSETNX sets the field only when the hash does not hold it
HSetNX(hash, field, value) ==
  IF HExists(hash, field)
    THEN [wasSet |-> FALSE, hash |-> hash]
    ELSE [wasSet |-> TRUE, hash |-> hash \cup {<<field, value>>}]

\* mutant: nothing is removed
HDelNothing(hash, field) == hash

HDel(hash, field) == {e \in hash : e[1] # field}

\* fail: the command does not reach the server
RedisCreateResult(hash, policy, fail) ==
  LET payload == Marshal(policy)
      set == IF fail THEN [wasSet |-> FALSE, hash |-> hash]
             ELSE HSetNX(hash, policy.ID, payload)
  IN IF ~set.wasSet THEN [err |-> "PolicyExists", hash |-> set.hash]
     ELSE IF fail THEN [err |-> "StoreError", hash |-> set.hash]
     ELSE [err |-> "nil", hash |-> set.hash]

RedisGetResults(hash, id) ==
  IF ~HExists(hash, id) THEN {Failed("NotFound")}
  ELSE {[err |-> "nil", policies |-> <<redisUnmarshalPolicy(HGet(hash, id))>>]}

RECURSIVE RedisScan(_, _, _, _)
\* the loop over the values HSCAN hands out, in the order it hands them out
RedisScan(values, subject, i, ps) ==
  IF i > Len(values) THEN [err |-> "nil", policies |-> ps]
  ELSE LET p == redisUnmarshalPolicy(values[i])
           m == Match(p, p.Subjects, subject)
       IN IF m.err THEN Failed("CompileError")
          ELSE IF ~m.ok THEN RedisScan(values, subject, i + 1, ps)
          ELSE RedisScan(values, subject, i + 1, Append(ps, p))

\* HSCAN hands the fields out in no specified order
RedisFindPoliciesForSubject(hash, subject) ==
  { RedisScan([i \in DOMAIN q |-> q[i][2]], subject, 1, <<>>) :
      q \in Enumerations(hash) }

(***************************************************************************)
(* SQLManager.                                                             *)
(***************************************************************************)
EmptyTables ==
  [ladon_policy |-> {},
   ladon_policy_subject |-> EmptyBag,
   ladon_policy_permission |-> EmptyBag,
   ladon_policy_resource |-> EmptyBag]

BagFilter(B, keep(_)) == [x \in {y \in DOMAIN B : keep(y)} |-> B[x]]

PolicyRow(db, id) == CHOOSE row \in db.ladon_policy : row.id = id
HasPolicyRow(db, id) == \E row \in db.ladon_policy : row.id = id

\* INSERT INTO ladon_policy: id is the primary key
InsertPolicy(db, pol, conditions) ==
  [db EXCEPT !.ladon_policy =
     @ \cup {[id |-> pol.ID, description |-> pol.Description,
              effect |-> pol.Effect, conditions |-> conditions]}]

InsertLink(db, table, id, template, compiled) ==
  [db EXCEPT ![table] =
     @ (+) SetToBag({[policy |-> id, template |-> template, compiled |-> compiled]})]

\* mutant: the statements already executed stay in the tables
RollbackKeepsWrites(before, tx) == tx

\* tx.Rollback and tx.Commit: the tables after the transaction has ended
Rollback(before, tx) == before
Commit(before, tx) == tx

RECURSIVE createLinkLoop(_, _, _, _, _, _, _)
\* n statements of the transaction have been executed; statement number
\* fail is the one the database rejects.  A template that does not compile
\* leaves reg nil, and reg.String() panics before the statement is sent.
createLinkLoop(before, tx, table, p, templates, i, nf) ==
  IF i > Len(templates) THEN [status |-> "ok", db |-> tx, n |-> nf[1]]
  ELSE LET c == CompileRegex(templates[i])
       IN IF c.err THEN [status |-> "panic", db |-> before, n |-> nf[1]]
          ELSE IF nf[1] + 1 = nf[2]
            THEN [status |-> "error", db |-> Rollback(before, tx), n |-> nf[1] + 1]
          ELSE createLinkLoop(before,
                              InsertLink(tx, table, p.ID, templates[i], c.reg),
                              table, p, templates, i + 1, <<nf[1] + 1, nf[2]>>)

createLinkSQL(before, tx, table, p, templates, n, fail) ==
  createLinkLoop(before, tx, table, p, templates, 1, <<n, fail>>)

\* statement 1 is Begin, 2 the INSERT of the policy row, then one INSERT for
\* every subject, action and resource template, and last the Commit.  After
\* a panic the transaction is neither committed nor rolled back: none of its
\* statements is ever visible in the tables.
SQLCreateResult(db, pol, fail) ==
  LET conditions == MarshalConditions(pol.Conditions)
      t1 == InsertPolicy(db, pol, conditions)
      s  == createLinkSQL(db, t1, "ladon_policy_subject", pol, pol.Subjects, 2, fail)
      a  == createLinkSQL(db, s.db, "ladon_policy_permission", pol, pol.Actions, s.n, fail)
      r  == createLinkSQL(db, a.db, "ladon_policy_resource", pol, pol.Resources, a.n, fail)
  IN IF fail = 1 THEN [err |-> "StoreError", db |-> db]
     ELSE IF HasPolicyRow(db, pol.ID)
       THEN [err |-> "UniqueViolation", db |-> Rollback(db, db)]
     ELSE IF fail = 2 THEN [err |-> "StoreError", db |-> Rollback(db, db)]
     ELSE IF s.status = "panic" THEN [err |-> "panic", db |-> db]
     ELSE IF s.status = "error" THEN [err |-> "StoreError", db |-> s.db]
     ELSE IF a.status = "panic" THEN [err |-> "panic", db |-> db]
     ELSE IF a.status = "error" THEN [err |-> "StoreError", db |-> a.db]
     ELSE IF r.status = "panic" THEN [err |-> "panic", db |-> db]
     ELSE IF r.status = "error" THEN [err |-> "StoreError", db |-> r.db]
     ELSE IF r.n + 1 = fail THEN [err |-> "StoreError", db |-> Rollback(db, r.db)]
     ELSE [err |-> "nil", db |-> Commit(db, r.db)]

\* SELECT template FROM table WHERE policy=?: the rows in no specified order
getLinkedSQL(db, table, id) ==
  LET rows == BagFilter(db[table], LAMBDA row : row.policy = id)
  IN { [i \in DOMAIN q |-> q[i].template] : q \in BagEnumerations(rows) }

SQLGetResults(db, id) ==
  IF ~HasPolicyRow(db, id) THEN {Failed("NotFound")}
  ELSE LET row == PolicyRow(db, id)
       IN { [err |-> "nil",
             policies |-> <<[ID |-> row.id, Description |-> row.description,
                             Subjects |-> subjects, Effect |-> row.effect,
                             Resources |-> resources, Actions |-> permissions,
                             Conditions |-> UnmarshalConditions(row.conditions)]>>] :
              subjects \in getLinkedSQL(db, "ladon_policy_subject", id),
              permissions \in getLinkedSQL(db, "ladon_policy_permission", id),
              resources \in getLinkedSQL(db, "ladon_policy_resource", id) }

\* DELETE FROM ladon_policy WHERE id=?, the link rows going ON DELETE CASCADE
SQLDelete(db, id) ==
  [ladon_policy |-> {row \in db.ladon_policy : row.id # id},
   ladon_policy_subject |->
     BagFilter(db.ladon_policy_subject, LAMBDA row : row.policy # id),
   ladon_policy_permission |->
     BagFilter(db.ladon_policy_permission, LAMBDA row : row.policy # id),
   ladon_policy_resource |->
     BagFilter(db.ladon_policy_resource, LAMBDA row : row.policy # id)]

\* the policy column of the subject rows whose compiled expression matches:
\* one id for every matching row (postgres), or one for every policy (mysql,
\* GROUP BY policy); in no specified order
SQLFindIds(db, drv, subject) ==
  LET rows == BagFilter(db.ladon_policy_subject,
                        LAMBDA row : MatchString(row.compiled, subject))
      ids == {row.policy : row \in DOMAIN rows}
      perId == [id \in ids |->
                  IF drv = "mysql" THEN 1
                  ELSE BagCardinality(BagFilter(rows, LAMBDA row : row.policy = id))]
  IN BagEnumerations(perId)

RECURSIVE SQLGetAll(_, _, _, _)
\* the loop of Get calls over the ids found; a Get that fails ends it
SQLGetAll(db, ids, i, policies) ==
  IF i > Len(ids) THEN {[err |-> "nil", policies |-> policies]}
  ELSE UNION { IF g.err # "nil" THEN {Failed(g.err)}
               ELSE SQLGetAll(db, ids, i + 1, policies \o g.policies) :
               g \in SQLGetResults(db, ids[i]) }

SQLFindPoliciesForSubject(db, drv, subject) ==
  IF drv \notin {"postgres", "pgx", "mysql"} THEN {Failed("DriverNotSupported")}
  ELSE UNION { SQLGetAll(db, ids, 1, <<>>) : ids \in SQLFindIds(db, drv, subject) }

(***************************************************************************)
(* The Manager interface, as the Ladon's Manager implements it.            *)
(***************************************************************************)
FindPoliciesForSubject(subject) ==
  IF Manager = "mock" THEN MockFindPoliciesForSubject(subject)
  ELSE IF Manager = "redis" THEN RedisFindPoliciesForSubject(redis, subject)
  ELSE SQLFindPoliciesForSubject(sqldb, driver, subject)

GetResults(id) ==
  IF Manager = "redis" THEN RedisGetResults(redis, id)
  ELSE SQLGetResults(sqldb, id)

\* mutant: a failed retrieval is answered as a denial
IsAllowedResultDeniesOnError(r, found) ==
  IF found.err # "nil"
    THEN [err |-> "Forbidden", found |-> found, trace |-> <<>>]
    ELSE LET d == doPoliciesAllow(r, found.policies)
         IN [err |-> d.err, found |-> found, trace |-> d.trace]

IsAllowedResult(r, found) ==
  IF found.err # "nil"
    THEN [err |-> found.err, found |-> found, trace |-> <<>>]
    ELSE LET d == doPoliciesAllow(r, found.policies)
         IN [err |-> d.err, found |-> found, trace |-> d.trace]

(***************************************************************************)
(* Actions.                                                                *)
(***************************************************************************)
\* The Ladon is run against the Manager interface: the MockManager hands it
\* any candidate list, or an error, which is whatever a store can hand it.
IsAllowed(r) ==
  /\ Manager = "mock"
  /\ \E found \in FindPoliciesForSubject(r.Subject) :
       ret' = IsAllowedResult(r, found)
  /\ call' = [op |-> "IsAllowed", request |-> r]
  /\ UNCHANGED <<Manager, mock, redis, sqldb, driver, finder, during>>

RedisCreate(policy, fail) ==
  /\ Manager = "redis"
  /\ LET res == RedisCreateResult(redis, policy, fail)
     IN /\ redis' = res.hash
        /\ ret' = [NoReturn EXCEPT !.err = res.err]
  /\ call' = [op |-> "Create", policy |-> policy]
  /\ UNCHANGED <<Manager, mock, sqldb, driver, finder, during>>

RedisDelete(id) ==
  /\ Manager = "redis"
  /\ redis' = HDel(redis, id)
  /\ ret' = NoReturn
  /\ call' = [op |-> "Delete", id |-> id]
  /\ UNCHANGED <<Manager, mock, sqldb, driver, finder, during>>

SQLCreate(policy, fail) ==
  /\ Manager = "sql"
  /\ LET res == SQLCreateResult(sqldb, policy, fail)
     IN /\ sqldb' = res.db
        /\ ret' = [NoReturn EXCEPT !.err = res.err]
  /\ call' = [op |-> "Create", policy |-> policy]
  /\ UNCHANGED <<Manager, mock, redis, driver, finder, during>>

SQLDeleteCall(id) ==
  /\ Manager = "sql"
  /\ sqldb' = SQLDelete(sqldb, id)
  /\ ret' = NoReturn
  /\ call' = [op |-> "Delete", id |-> id]
  /\ UNCHANGED <<Manager, mock, redis, driver, finder, during>>

Get(id) ==
  /\ Manager \in {"redis", "sql"}
  /\ \E g \in GetResults(id) :
       ret' = [err |-> g.err, found |-> g, trace |-> <<>>]
  /\ call' = [op |-> "Get", id |-> id]
  /\ UNCHANGED <<Manager, mock, redis, sqldb, driver, finder, during>>

Find(subject) ==
  /\ Manager \in {"redis", "sql"}
  /\ \E f \in FindPoliciesForSubject(subject) :
       ret' = [err |-> f.err, found |-> f, trace |-> <<>>]
  /\ call' = [op |-> "FindPoliciesForSubject", subject |-> subject]
  /\ UNCHANGED <<Manager, mock, redis, sqldb, driver, finder, during>>

Init ==
  /\ Manager \in {"mock", "redis", "sql"}
  /\ mock \in IF Manager = "mock" THEN MockReturns ELSE {NoPolicies}
  /\ driver \in IF Manager = "sql" THEN {"postgres", "mysql", "sqlite3"} ELSE {"none"}
  /\ redis = {}
  /\ sqldb = EmptyTables
  /\ call = [op |-> "new"]
  /\ ret = NoReturn
  /\ finder = Idle
  /\ during = {}

Next ==
  \/ \E r \in Requests : IsAllowed(r)
  \/ \E p \in StorePolicies : \E fail \in BOOLEAN : RedisCreate(p, fail)
  \/ \E id \in IDs : RedisDelete(id)
  \/ \E p \in StorePolicies : \E fail \in 0..MaxFail : SQLCreate(p, fail)
  \/ \E id \in IDs : SQLDeleteCall(id)
  \/ \E id \in IDs : Get(id)
  \/ \E s \in Subjects : Find(s)

Spec == Init /\ [][Next]_vars

(***************************************************************************)
(* SQLManager.FindPoliciesForSubject, statement by statement, while other  *)
(* callers create and delete policies.  The manager holds a *sqlx.DB, a    *)
(* pool of connections, and opens no transaction for its reads: every      *)
(* SELECT is a statement of its own and sees what is committed when it     *)
(* runs.  A Create becomes visible as a whole at its Commit, a Delete and   *)
(* its cascade as a whole.                                                 *)
(***************************************************************************)
\* policies the other callers create: two bodies that the subject p finds
ConcurrentPolicies ==
  { DefaultPolicy(id, AllowAccessEffect, <<TplPeter>>, <<TplAny>>, <<>>, <<>>) :
      id \in IDs }
  \cup
  { DefaultPolicy(id, DenyAccessEffect, <<TplAny>>, <<TplView>>, <<TplArt>>, <<>>) :
      id \in IDs }

\* a commit of another caller, seen by the call in flight
Written(db) ==
  IF finder.pc \in {"idle", "done"} \/ db = sqldb
    THEN /\ finder' = finder
         /\ during' = during
    ELSE /\ finder.writes < MaxWrites
         /\ finder' = [finder EXCEPT !.writes = @ + 1]
         /\ during' = during \cup {db}

ConcurrentCreate(policy) ==
  /\ sqldb' = SQLCreateResult(sqldb, policy, 0).db
  /\ Written(sqldb')
  /\ UNCHANGED <<Manager, mock, redis, driver, call, ret>>

ConcurrentDelete(id) ==
  /\ sqldb' = SQLDelete(sqldb, id)
  /\ Written(sqldb')
  /\ UNCHANGED <<Manager, mock, redis, driver, call, ret>>

\* the call begins: the driver switch and the query for the ids
FindIds(subject) ==
  /\ finder.pc = "idle"
  /\ IF driver \notin {"postgres", "pgx", "mysql"}
       THEN finder' = [Idle EXCEPT !.pc = "done", !.subject = subject,
                                   !.err = "DriverNotSupported"]
       ELSE \E ids \in SQLFindIds(sqldb, driver, subject) :
              finder' = [Idle EXCEPT !.pc = IF ids = <<>> THEN "done" ELSE "row",
                                     !.subject = subject, !.ids = ids, !.i = 1]
  /\ during' = {sqldb}
  /\ UNCHANGED <<Manager, mock, redis, sqldb, driver, call, ret>>

\* Get(id): the SELECT of the policy row; sql.ErrNoRows ends the whole call
GetRow ==
  /\ finder.pc = "row"
  /\ LET id == finder.ids[finder.i]
     IN IF ~HasPolicyRow(sqldb, id)
          THEN finder' = [finder EXCEPT !.pc = "done", !.policies = <<>>,
                                        !.err = "NotFound"]
          ELSE LET row == PolicyRow(sqldb, id)
               IN finder' =
                    [finder EXCEPT
                       !.pc = "ladon_policy_subject",
                       !.p = [ZeroPolicy EXCEPT
                                !.ID = row.id, !.Description = row.description,
                                !.Effect = row.effect,
                                !.Conditions = UnmarshalConditions(row.conditions)]]
  /\ UNCHANGED <<Manager, mock, redis, sqldb, driver, call, ret, during>>

\* Get(id): the three getLinkedSQL calls, one SELECT each; after the last
\* the policy is appended and the loop goes on to the next id
GetLinked ==
  /\ finder.pc \in {"ladon_policy_subject", "ladon_policy_permission",
                     "ladon_policy_resource"}
  /\ \E urns \in getLinkedSQL(sqldb, finder.pc, finder.ids[finder.i]) :
       finder' =
         IF finder.pc = "ladon_policy_subject"
           THEN [finder EXCEPT !.pc = "ladon_policy_permission",
                               !.p.Subjects = urns]
         ELSE IF finder.pc = "ladon_policy_permission"
           THEN [finder EXCEPT !.pc = "ladon_policy_resource",
                               !.p.Actions = urns]
         ELSE [finder EXCEPT
                 !.pc = IF finder.i = Len(finder.ids) THEN "done" ELSE "row",
                 !.i = @ + 1,
                 !.p = ZeroPolicy,
                 !.policies = Append(@, [finder.p EXCEPT !.Resources = urns])]
  /\ UNCHANGED <<Manager, mock, redis, sqldb, driver, call, ret, during>>

\* the call returns finder.policies and finder.err to its caller
FindReturn ==
  /\ finder.pc = "done"
  /\ finder' = Idle
  /\ during' = {}
  /\ UNCHANGED <<Manager, mock, redis, sqldb, driver, call, ret>>

ConcurrentInit ==
  /\ Manager = "sql"
  /\ mock = NoPolicies
  /\ driver \in {"postgres", "mysql"}
  /\ redis = {}
  /\ sqldb = EmptyTables
  /\ call = [op |-> "new"]
  /\ ret = NoReturn
  /\ finder = Idle
  /\ during = {}

ConcurrentNext ==
  \/ \E p \in ConcurrentPolicies : ConcurrentCreate(p)
  \/ \E id \in IDs : ConcurrentDelete(id)
  \/ \E s \in Subjects : FindIds(s)
  \/ GetRow
  \/ GetLinked
  \/ FindReturn

ConcurrentSpec == ConcurrentInit /\ [][ConcurrentNext]_vars

(***************************************************************************)
(* The four checks of the decision, stated on the patterns themselves: a   *)
(* pattern matches when it compiles and its expression matches the whole   *)
(* string.                                                                 *)
(***************************************************************************)
Compiles(tpl) == ~CompileRegex(tpl).err

PatternMatches(tpl, str) ==
  Compiles(tpl) /\ MatchString(CompileRegex(tpl).reg, str)

AnyPatternMatches(patterns, str) ==
  \E i \in 1..Len(patterns) : PatternMatches(patterns[i], str)

\* a malformed pattern stands in the list with no matching pattern before it
ReachesMalformed(patterns, str) ==
  \E i \in 1..Len(patterns) :
    /\ ~Compiles(patterns[i])
    /\ \A j \in 1..(i - 1) : ~PatternMatches(patterns[j], str)

HasMalformed(p) ==
  \E l \in {p.Actions, p.Subjects, p.Resources} :
    \E i \in 1..Len(l) : ~Compiles(l[i])

ActionMatches(p, r) == AnyPatternMatches(p.Actions, r.Action)

SubjectMatches(p, r) ==
  Len(p.Subjects) = 0 \/ AnyPatternMatches(p.Subjects, r.Subject)

ResourceUnscoped(p, r) == r.Resource = <<>> /\ Len(p.Resources) = 0

ResourceMatches(p, r) ==
  ResourceUnscoped(p, r) \/ AnyPatternMatches(p.Resources, r.Resource)

ConditionsMet(p, r) ==
  \A c \in {p.Conditions[i] : i \in 1..Len(p.Conditions)} : Fulfills(c, r)

PolicyMatches(p, r) ==
  /\ ActionMatches(p, r)
  /\ SubjectMatches(p, r)
  /\ ResourceMatches(p, r)
  /\ ConditionsMet(p, r)

\* the checks made on p, in their order, come to a malformed pattern
HitsMalformed(p, r) ==
  \/ ReachesMalformed(p.Actions, r.Action)
  \/ /\ ActionMatches(p, r)
     /\ ReachesMalformed(p.Subjects, r.Subject)
  \/ /\ ActionMatches(p, r)
     /\ SubjectMatches(p, r)
     /\ ~ResourceUnscoped(p, r)
     /\ ReachesMalformed(p.Resources, r.Resource)

\* a decision has been made on a candidate list the Manager supplied
Decided == call.op = "IsAllowed" /\ ret.found.err = "nil"
Candidates == ret.found.policies
DenyMatch(i) ==
  PolicyMatches(Candidates[i], call.request)
    /\ Candidates[i].Effect = DenyAccessEffect
AllowMatch(i) ==
  PolicyMatches(Candidates[i], call.request)
    /\ Candidates[i].Effect = AllowAccessEffect
SomeHitsMalformed ==
  \E k \in 1..Len(Candidates) : HitsMalformed(Candidates[k], call.request)

\* C1 as claimed: whenever some candidate policy matches the request and has
\* effect Deny, IsAllowed returns Forbidden, for every candidate list in
\* every order.
C1_DenyOverridesAlways ==
  (Decided /\ \E i \in 1..Len(Candidates) : DenyMatch(i))
    => ret.err = "Forbidden"

\* C1 amended: whenever some candidate policy matches the request and has
\* effect Deny, IsAllowed never returns Allowed, wherever the Deny policy
\* sits and however many Allow policies match: it returns Forbidden, or the
\* compile error of a malformed pattern that the checks of some policy come
\* to; it returns Forbidden whenever the checks come to no malformed pattern.
C1_DenyOverrides ==
  (Decided /\ \E i \in 1..Len(Candidates) : DenyMatch(i))
    => /\ ret.err \in {"Forbidden", "CompileError"}
       /\ ret.err = "CompileError" => SomeHitsMalformed
       /\ ~SomeHitsMalformed => ret.err = "Forbidden"

C1_Witness ==
  /\ Decided
  /\ Len(Candidates) = 2
  /\ AllowMatch(1)
  /\ DenyMatch(2)
  /\ ret.err = "Forbidden"

\* C2 as claimed: when no Deny policy matches the request and at least one
\* Allow policy matches it, IsAllowed returns Allowed.
C2_AllowGrantsAlways ==
  (/\ Decided
   /\ \A i \in 1..Len(Candidates) : ~DenyMatch(i)
   /\ \E i \in 1..Len(Candidates) : AllowMatch(i))
    => ret.err = "nil"

\* C2 amended: when no Deny policy matches the request and at least one
\* Allow policy matches it, IsAllowed returns Allowed, unless the checks of
\* some candidate policy come to a malformed pattern, and then it returns
\* the compile error.
C2_AllowGrants ==
  (/\ Decided
   /\ \A i \in 1..Len(Candidates) : ~DenyMatch(i)
   /\ \E i \in 1..Len(Candidates) : AllowMatch(i))
    => ret.err = IF SomeHitsMalformed THEN "CompileError" ELSE "nil"

C2_Witness ==
  /\ Decided
  /\ Len(Candidates) = 2
  /\ Candidates[1].Effect = DenyAccessEffect
  /\ ~DenyMatch(1)
  /\ AllowMatch(2)
  /\ ret.err = "nil"

\* C3 as claimed: IsAllowed returns Allowed only if some Allow candidate
\* passed all four checks, and when no candidate matches the request (the
\* empty list included) it returns Forbidden.
C3_FailClosedAlways ==
  /\ (call.op = "IsAllowed" /\ ret.err = "nil")
       => \E i \in 1..Len(Candidates) : AllowMatch(i)
  /\ (Decided /\ \A i \in 1..Len(Candidates) :
                    ~PolicyMatches(Candidates[i], call.request))
       => ret.err = "Forbidden"

\* C3 amended: IsAllowed returns Allowed only if some Allow candidate passed
\* all four checks; when no candidate matches the request (the empty list
\* included) it returns Forbidden, unless the checks of some candidate come
\* to a malformed pattern, and then it returns the compile error.
C3_FailClosed ==
  /\ (call.op = "IsAllowed" /\ ret.err = "nil")
       => \E i \in 1..Len(Candidates) : AllowMatch(i)
  /\ (Decided /\ \A i \in 1..Len(Candidates) :
                    ~PolicyMatches(Candidates[i], call.request))
       => ret.err = IF SomeHitsMalformed THEN "CompileError" ELSE "Forbidden"

C3_Witness ==
  /\ Decided
  /\ Len(Candidates) = 2
  /\ \A i \in 1..2 : ~PolicyMatches(Candidates[i], call.request)
  /\ Candidates[1].Effect = AllowAccessEffect
  /\ ret.err = "Forbidden"

\* C4 as claimed: whenever the candidate list holds a policy one of whose
\* action, subject or resource patterns does not compile, IsAllowed returns
\* the compile error.
C4_MalformedNeverSkipped ==
  (Decided /\ \E i \in 1..Len(Candidates) : HasMalformed(Candidates[i]))
    => ret.err = "CompileError"

\* C4 amended: IsAllowed returns the compile error, and no verdict, exactly
\* when the scan comes to a malformed pattern: the pattern stands in a check
\* the engine makes on its policy (action; subject once an action pattern
\* matched; resource once the subject check passed, unless the request
\* resource is empty and the policy has no resource patterns), no pattern
\* before it in its list matches, and no policy before its policy is a
\* matching Deny.  A malformed pattern the scan does not come to is not
\* reported.
C4_MalformedReachedAborts ==
  Decided =>
    (ret.err = "CompileError"
       <=> \E k \in 1..Len(Candidates) :
             /\ HitsMalformed(Candidates[k], call.request)
             /\ \A j \in 1..(k - 1) : ~DenyMatch(j))

C4_Witness ==
  /\ Decided
  /\ Len(Candidates) = 2
  /\ AllowMatch(1)
  /\ ~HitsMalformed(Candidates[1], call.request)
  /\ HitsMalformed(Candidates[2], call.request)
  /\ ret.err = "CompileError"

\* C5: when the Manager's find call fails, IsAllowed returns that error,
\* which is neither nil nor Forbidden, and evaluates no policy; when the
\* checks of an evaluated policy come to a malformed pattern, IsAllowed
\* returns the compile error, that policy is the last one evaluated, and the
\* result is neither nil nor Forbidden.
C5_FailedIsNotDenied ==
  call.op = "IsAllowed" =>
    /\ ret.found.err # "nil" =>
         /\ ret.err = ret.found.err
         /\ ret.err \notin {"nil", "Forbidden"}
         /\ ret.trace = <<>>
    /\ \A k \in 1..Len(ret.trace) :
         (HitsMalformed(Candidates[k], call.request)
            \/ ret.trace[k] \in {"action_error", "subject_error", "resource_error"})
           => /\ k = Len(ret.trace)
              /\ ret.err = "CompileError"

C5_Witness ==
  /\ Decided
  /\ Len(Candidates) = 2
  /\ Len(ret.trace) = 1
  /\ ret.trace[1] = "subject_error"
  /\ ret.err = "CompileError"

\* the iteration over policy k came to the resource check
ReachedResourceCheck(k) ==
  ret.trace[k] \notin {"action_error", "action_skip", "subject_error", "subject_skip"}
PassedResourceCheck(k) ==
  ret.trace[k] \in {"condition_skip", "deny", "allow"}

\* C6 as claimed: the resource check passes when the request resource is
\* empty and the policy has no resource patterns, and in every other case
\* exactly when one of the policy's resource patterns matches the resource.
C6_ResourceCheckExact ==
  Decided =>
    \A k \in 1..Len(ret.trace) :
      ReachedResourceCheck(k) =>
        (PassedResourceCheck(k) <=> ResourceMatches(Candidates[k], call.request))

\* C6 amended: the resource check passes when the request resource is empty
\* and the policy has no resource patterns; in every other case it passes
\* exactly when one of the policy's resource patterns matches the resource
\* and no malformed pattern stands before the first matching one, and it
\* aborts the decision with the compile error exactly when a malformed
\* pattern stands in the list with no matching pattern before it.  A policy
\* with no resource patterns passes for an empty resource and is excluded
\* for a non-empty one.
C6_ResourceCheck ==
  Decided =>
    \A k \in 1..Len(ret.trace) :
      ReachedResourceCheck(k) =>
        LET p == Candidates[k]
            r == call.request
        IN /\ PassedResourceCheck(k)
                <=> \/ ResourceUnscoped(p, r)
                    \/ /\ AnyPatternMatches(p.Resources, r.Resource)
                       /\ ~ReachesMalformed(p.Resources, r.Resource)
           /\ ret.trace[k] = "resource_error"
                <=> /\ ~ResourceUnscoped(p, r)
                    /\ ReachesMalformed(p.Resources, r.Resource)
           /\ Len(p.Resources) = 0
                => (PassedResourceCheck(k) <=> r.Resource = <<>>)

C6_Witness ==
  /\ Decided
  /\ Len(Candidates) = 1
  /\ Len(Candidates[1].Resources) = 0
  /\ call.request.Resource = <<>>
  /\ ret.trace = <<"allow">>
  /\ ret.err = "nil"

(***************************************************************************)
(* The stores.                                                             *)
(***************************************************************************)
IsStore == Manager \in {"redis", "sql"}

StoredIds ==
  IF Manager = "redis" THEN {e[1] : e \in redis}
  ELSE {row.id : row \in sqldb.ladon_policy}

\* the engine's subject check accepts policy p for subject s
SubjectCheckAccepts(p, s) ==
  Len(p.Subjects) = 0 \/ AnyPatternMatches(p.Subjects, s)

\* C7: every stored policy that the engine's subject check accepts for a
\* subject (one of its subject patterns matches, or its subject list is
\* empty) is in every list FindPoliciesForSubject returns for that subject.
C7_StoreNeverUnderReturns ==
  IsStore =>
    \A id \in IDs : \A g \in GetResults(id) :
      g.err = "nil" =>
        \A s \in Subjects :
          SubjectCheckAccepts(g.policies[1], s) =>
            \A f \in FindPoliciesForSubject(s) :
              f.err = "nil" =>
                \E k \in 1..Len(f.policies) : f.policies[k].ID = id

\* C8: a Create with an identifier that is already stored returns an error,
\* and every Create that does not return nil leaves the hash and the tables
\* as they were (Get and FindPoliciesForSubject read nothing else, so they
\* answer as before).
C8_CreateErrorLeavesStore ==
  [][ (IsStore /\ call'.op = "Create") =>
        /\ call'.policy.ID \in StoredIds => ret'.err \notin {"nil", "panic"}
        /\ ret'.err # "nil" => (redis' = redis /\ sqldb' = sqldb) ]_vars

C8_Witness ==
  /\ IsStore
  /\ call.op = "Create"
  /\ ret.err \in {"PolicyExists", "UniqueViolation"}
  /\ \E g \in GetResults(call.policy.ID) :
       /\ g.err = "nil"
       /\ g.policies[1].Effect # call.policy.Effect
       /\ g.policies[1].Actions # call.policy.Actions

\* no Get and no FindPoliciesForSubject shows a policy with this identifier
Absent(id) ==
  /\ GetResults(id) = {Failed("NotFound")}
  /\ \A s \in Subjects : \A f \in FindPoliciesForSubject(s) :
       \A k \in 1..Len(f.policies) : f.policies[k].ID # id

\* C9: a Delete returns no error, and after it the identifier is not stored;
\* a Delete of an identifier that is not stored leaves the store unchanged;
\* for an identifier that is not stored Get fails with NotFound and
\* FindPoliciesForSubject returns no policy with that identifier; and only a
\* Create with that identifier makes it stored again.
C9_DeleteIdempotent ==
  /\ [](IsStore => \A id \in IDs \ StoredIds : Absent(id))
  /\ [][ IsStore =>
           /\ call'.op = "Delete" =>
                /\ ret'.err = "nil"
                /\ call'.id \notin StoredIds'
                /\ call'.id \notin StoredIds => (redis' = redis /\ sqldb' = sqldb)
           /\ \A id \in IDs :
                (id \notin StoredIds /\ id \in StoredIds')
                  => (call'.op = "Create" /\ call'.policy.ID = id) ]_vars

C9_Witness ==
  /\ IsStore
  /\ call.op = "Delete"
  /\ ret.err = "nil"
  /\ Absent(call.id)
  /\ StoredIds # {}

\* C10: after a Create that succeeded, Get of the policy's identifier
\* returns a policy equal to the one created: the same subjects, resources,
\* actions, effect and conditions.
C10_RoundTrip ==
  (IsStore /\ call.op = "Create" /\ ret.err = "nil") =>
    \A g \in GetResults(call.policy.ID) :
      /\ g.err = "nil"
      /\ g.policies[1] = call.policy

\* what FindPoliciesForSubject returns when nobody writes while it runs
FoundAt(db, subject) == SQLFindPoliciesForSubject(db, driver, subject)

Returned == [err |-> finder.err, policies |-> finder.policies]

\* C11: a FindPoliciesForSubject of the SQL store that runs while policies
\* are created and deleted returns no error, and the list it returns is the
\* list of subject-matching policies of the store at one instant of the
\* call; every policy in it is a policy as the store held it at one instant.
C11_FindIsAtomic ==
  finder.pc = "done" =>
    /\ finder.err = "nil"
    /\ \E db \in during : Returned \in FoundAt(db, finder.subject)
    /\ \A k \in 1..Len(finder.policies) :
         \E db \in during :
           \E g \in SQLGetResults(db, finder.policies[k].ID) :
             g.err = "nil" /\ g.policies[1] = finder.policies[k]

====
